---- MODULE Spec2Model ----
(***************************************************************************)
(* The OAuth 2.0 authorization-code flow, the bearer-token registry and    *)
(* the bearer-protected tool endpoints of the Gemini Imagen MCP server     *)
(* (src/src/index.ts, lines 1-496: the HTTP server with authentication).   *)
(*                                                                         *)
(* Each Express handler is one atomic action: Node runs a synchronous      *)
(* handler to completion before it serves the next event.  The clock       *)
(* (Date.now) and the firing of setTimeout callbacks are separate actions; *)
(* a timer callback runs at or after its due time, never before.           *)
(***************************************************************************)
EXTENDS Integers, FiniteSets, Sequences, TLC

VARIABLES
    pendingAuths,   \* Map<string, {codeChallenge, redirectUri, expiresAt}>
    validTokens,    \* Set<string>
    timers,         \* pending setTimeout callbacks: {[token, due]}
    now,            \* Date.now(), in milliseconds
    drawn,          \* how many identifiers crypto.randomUUID() has produced
    req,            \* the request being answered, Idle between requests
    resp,           \* the response to it
    grants,         \* history: codes minted by a correct-password submit
    issued,         \* history: token -> [code, challenge, at] of its issue
    removed,        \* history: tokens deleted from validTokens
    mintedFor,      \* history: code -> the auth_id it was minted for
    sessions,       \* the session registry: the ids of the live sessions
    sessionsMade,   \* how many session ids have been generated
    closed,         \* history: the ids of the sessions that were closed
    page,           \* the login page a browser is showing, NoPage if none
    calls           \* the invocations of generateImage, in order of start

\* the session multiplexer's state
sessionVars == <<sessions, sessionsMade, closed>>

vars == <<pendingAuths, validTokens, timers, now, drawn, req, resp,
          grants, issued, removed, mintedFor, sessionVars, page, calls>>

----------------------------------------------------------------------------
(* Bounds of the model *)

\* how many identifiers the server mints in a run
MaxIds == 3

----------------------------------------------------------------------------
(* Values *)

\* a missing query/body parameter or header (JavaScript undefined)
Absent == "<absent>"

\* process.env.AUTH_PASSWORD || "changeme"
AUTH_PASSWORD == "changeme"

\* JavaScript truthiness of a string-or-undefined value
Truthy(x) == x # Absent /\ x # ""

\* Date.now() + 10 * 60 * 1000
AuthTTL == 10 * 60 * 1000

\* expires_in: 86400, the lifetime in seconds announced to the client
ExpiresIn == 86400

\* the delay of setTimeout(() => validTokens.delete(accessToken), 86400 * 1000)
TimerDelayUnscaled == ExpiresIn

TimerDelay == 86400 * 1000

\* crypto.createHash("sha256").update(v).digest("base64url"), tabulated on
\* the verifiers the model uses
S256(v) ==
    CASE v = ""           -> "47DEQpj8HBSa-_TImW-5JCeuQeRkm5NMpJWZG3hSuFU"
      [] v = "verifier-1" -> "xTYRBLTDt1gS3-rw_3FBVafZ0iNg9bZYBbG8fRPvkEs"
      [] v = "verifier-2" -> "FJO3t0PE8HluwP2_-7vIsnVmjUEqcMhWDRpwAQOBz60"

\* Map.set and Map.delete
MapSet(m, k, v) == [x \in (DOMAIN m) \cup {k} |-> IF x = k THEN v ELSE m[x]]

MapDelete(m, k) == [x \in (DOMAIN m) \ {k} |-> m[x]]

EmptyMap == [x \in {} |-> x]

----------------------------------------------------------------------------
(* Inputs *)

\* the k-th UUID is the number k; 0 is a string no UUID ever equals
Ids == 1..MaxIds

\* identifiers a client can present: those produced so far, or junk
Presentable == 0..drawn

ResponseTypes == {"code", "token", Absent}

RedirectUris == {"https://client.example/cb"}

Verifiers == {Absent, "", "verifier-1"}

Challenges == {Absent, S256(""), S256("verifier-1")}

StateParams == {"", "xyz"}

Passwords == {AUTH_PASSWORD, "wrong", "", Absent}

GrantTypes == {"authorization_code", "refresh_token"}

ToolNames == {"generate_image", "edit_image", "other"}

\* an Authorization header is the string prefix \o rest; NoHeader is the
\* request without one
NoHeader == [prefix |-> Absent, rest |-> 0]

AuthHeaders ==
    {NoHeader} \cup {[prefix |-> "Basic ", rest |-> 0]}
             \cup {[prefix |-> "Bearer ", rest |-> t] : t \in Presentable}

\* the instants at which the model looks at the server: start, ten minutes
\* later, twenty-four hours later and one millisecond after that
Instants == {0, 10 * 60 * 1000, 86400 * 1000, 86400 * 1000 + 1}

\* no request is being answered
Idle == [op |-> "idle"]

\* no login page is open in the browser
NoPage == [shown |-> FALSE]

NoResp == [status |-> 0]

----------------------------------------------------------------------------
(* Helpers of the handlers *)

\* crypto.randomUUID(): a value never produced before
RecycledUUID == (drawn % 2) + 1

randomUUID == drawn + 1

CanDraw == drawn < MaxIds

\* response_type !== "code" is refused
AnyResponseType(response_type) == TRUE

ResponseTypeOk(response_type) == response_type = "code"

\* the record GET /authorize stores
NewPending(code_challenge, redirect_uri) ==
    [codeChallenge |-> code_challenge,
     redirectUri   |-> redirect_uri,
     expiresAt     |-> now + AuthTTL]

\* password !== AUTH_PASSWORD is refused
PasswordOrEmpty(password) == password = AUTH_PASSWORD \/ ~Truthy(password)

PasswordOk(password) == password = AUTH_PASSWORD

\* grant_type !== "authorization_code" is refused
AnyGrantType(grant_type) == TRUE

GrantTypeOk(grant_type) == grant_type = "authorization_code"

\* !pending || Date.now() > pending.expiresAt is refused
PendingExists(auth_id) == auth_id \in DOMAIN pendingAuths

PendingLive(auth_id) ==
    /\ auth_id \in DOMAIN pendingAuths
    /\ ~(now > pendingAuths[auth_id].expiresAt)

\* new URL(pending.redirectUri) throws on a missing or relative URI
ValidUrl(uri) == uri # Absent

\* the redirect URL: code always, state only when truthy
RedirectUrl(pending, code, state) ==
    [base  |-> pending.redirectUri,
     code  |-> code,
     state |-> IF Truthy(state) THEN state ELSE Absent]

\* the PKCE check: skipped when the stored challenge is falsy, otherwise
\* sha256(code_verifier || "") must equal the stored challenge
PkceOk(pending, code_verifier) ==
    Truthy(pending.codeChallenge) =>
        S256(IF Truthy(code_verifier) THEN code_verifier ELSE "")
            = pending.codeChallenge

\* pendingAuths after a successful login: pendingAuths.set(code, pending)
\* and pendingAuths.delete(auth_id)
PendingRekeyKept(auth_id, code, pending) == MapSet(pendingAuths, code, pending)

PendingRekeyed(auth_id, code, pending) ==
    MapDelete(MapSet(pendingAuths, code, pending), auth_id)

\* pendingAuths after a successful redemption: pendingAuths.delete(code)
PendingKept(code) == pendingAuths

PendingCleared(code) == EmptyMap

PendingAfterRedeem(code) == MapDelete(pendingAuths, code)

\* authMiddleware: !authHeader || !authHeader.startsWith("Bearer ")
AnyHeader(authHeader) == authHeader # NoHeader

HasBearer(authHeader) ==
    authHeader # NoHeader /\ authHeader.prefix = "Bearer "

\* authHeader.substring(7)
BearerToken(authHeader) == authHeader.rest

\* validTokens.has(token)
AnyToken(token) == TRUE

TokenValid(token) == token \in validTokens

\* the status authMiddleware answers with, 0 when it calls next()
AuthStatus(authHeader) ==
    IF ~HasBearer(authHeader) THEN 401
    ELSE IF ~TokenValid(BearerToken(authHeader)) THEN 403
    ELSE 0

\* what authMiddleware answers when it does not call next(): a status and a
\* JSON body; it sets no response header
AuthReject(status) ==
    [status |-> status, ran |-> FALSE, www_authenticate |-> Absent]

----------------------------------------------------------------------------
(* The state after startHttpServer() *)

Init ==
    /\ pendingAuths = EmptyMap
    /\ validTokens = {}
    /\ timers = {}
    /\ now = 0
    /\ drawn = 0
    /\ req = Idle
    /\ resp = NoResp
    /\ grants = {}
    /\ issued = EmptyMap
    /\ removed = {}
    /\ mintedFor = EmptyMap
    /\ sessions = {}
    /\ sessionsMade = 0
    /\ closed = {}
    /\ page = NoPage
    /\ calls = << >>

----------------------------------------------------------------------------
(* Handlers *)

\* GET /.well-known/oauth-authorization-server
Discovery ==
    /\ req = Idle
    /\ req' = [op |-> "discovery", authorization |-> NoHeader]
    /\ resp' = [status |-> 200]
    /\ UNCHANGED <<pendingAuths, validTokens, timers, now, drawn,
                   grants, issued, removed,
                   mintedFor, sessionVars,
                   page, calls>>

\* GET /health
HealthBehindAuth ==
    /\ req = Idle
    /\ req' = [op |-> "health", authorization |-> NoHeader]
    /\ resp' = AuthReject(AuthStatus(NoHeader))
    /\ UNCHANGED <<pendingAuths, validTokens, timers, now, drawn,
                   grants, issued, removed,
                   mintedFor, sessionVars,
                   page, calls>>

Health ==
    /\ req = Idle
    /\ req' = [op |-> "health", authorization |-> NoHeader]
    /\ resp' = [status |-> 200]
    /\ UNCHANGED <<pendingAuths, validTokens, timers, now, drawn,
                   grants, issued, removed,
                   mintedFor, sessionVars,
                   page, calls>>

\* POST /register: the client_id it mints is returned and never stored, so
\* it is not counted among the identifiers of the server's state
Register ==
    /\ req = Idle
    /\ req' = [op |-> "register"]
    /\ resp' = [status |-> 201]
    /\ UNCHANGED <<pendingAuths, validTokens, timers, now, drawn,
                   grants, issued, removed,
                   mintedFor, sessionVars,
                   page, calls>>

\* GET /authorize
Authorize(response_type, redirect_uri, code_challenge, state) ==
    /\ req = Idle
    /\ req' = [op |-> "authorize", response_type |-> response_type,
               redirect_uri |-> redirect_uri,
               code_challenge |-> code_challenge, state |-> state]
    /\ IF ~ResponseTypeOk(response_type)
       THEN /\ resp' = [status |-> 400]
            /\ UNCHANGED <<pendingAuths, drawn>>
       ELSE /\ CanDraw
            /\ LET authId == randomUUID IN
               /\ pendingAuths' = MapSet(pendingAuths, authId,
                                         NewPending(code_challenge, redirect_uri))
               /\ resp' = [status |-> 200, auth_id |-> authId,
                           state |-> IF Truthy(state) THEN state ELSE ""]
            /\ drawn' = drawn + 1
    /\ UNCHANGED <<validTokens, timers, now, grants, issued, removed,
                   mintedFor, sessionVars,
                   page, calls>>

\* POST /authorize/submit
SubmitLookupFirst(auth_id, password, state) ==
    /\ req = Idle
    /\ req' = [op |-> "submit", auth_id |-> auth_id,
               password |-> password, state |-> state]
    /\ IF ~PendingLive(auth_id)
       THEN /\ resp' = [status |-> 400]
            /\ UNCHANGED <<pendingAuths, drawn, grants, mintedFor>>
       ELSE IF ~PasswordOk(password)
       THEN /\ resp' = [status |-> 401]
            /\ UNCHANGED <<pendingAuths, drawn, grants, mintedFor>>
       ELSE /\ CanDraw
            /\ LET pending == pendingAuths[auth_id]
                   code    == randomUUID
               IN
               /\ pendingAuths' = PendingRekeyed(auth_id, code, pending)
               /\ grants' = grants \cup {code}
               /\ mintedFor' = MapSet(mintedFor, code, auth_id)
               /\ IF ValidUrl(pending.redirectUri)
                  THEN resp' = [status |-> 302,
                                location |-> RedirectUrl(pending, code, state)]
                  ELSE resp' = [status |-> 500]
            /\ drawn' = drawn + 1
    /\ UNCHANGED <<validTokens, timers, now, issued, removed,
                   sessionVars,
                   page, calls>>

Submit(auth_id, password, state) ==
    /\ req = Idle
    /\ req' = [op |-> "submit", auth_id |-> auth_id,
               password |-> password, state |-> state]
    /\ IF ~PasswordOk(password)
       THEN /\ resp' = [status |-> 401]
            /\ UNCHANGED <<pendingAuths, drawn, grants, mintedFor>>
       ELSE IF ~PendingLive(auth_id)
       THEN /\ resp' = [status |-> 400]
            /\ UNCHANGED <<pendingAuths, drawn, grants, mintedFor>>
       ELSE /\ CanDraw
            /\ LET pending == pendingAuths[auth_id]
                   code    == randomUUID
               IN
               /\ pendingAuths' = PendingRekeyed(auth_id, code, pending)
               /\ grants' = grants \cup {code}
               /\ mintedFor' = MapSet(mintedFor, code, auth_id)
               /\ IF ValidUrl(pending.redirectUri)
                  THEN resp' = [status |-> 302,
                                location |-> RedirectUrl(pending, code, state)]
                  ELSE resp' = [status |-> 500]
            /\ drawn' = drawn + 1
    /\ UNCHANGED <<validTokens, timers, now, issued, removed,
                   sessionVars,
                   page, calls>>

\* POST /token
Token(grant_type, code, code_verifier) ==
    /\ req = Idle
    /\ req' = [op |-> "token", grant_type |-> grant_type, code |-> code,
               code_verifier |-> code_verifier]
    /\ IF ~GrantTypeOk(grant_type)
       THEN /\ resp' = [status |-> 400, error |-> "unsupported_grant_type"]
            /\ UNCHANGED <<pendingAuths, validTokens, timers, drawn, issued>>
       ELSE IF code \notin DOMAIN pendingAuths
       THEN /\ resp' = [status |-> 400, error |-> "invalid_grant"]
            /\ UNCHANGED <<pendingAuths, validTokens, timers, drawn, issued>>
       ELSE IF ~PkceOk(pendingAuths[code], code_verifier)
       THEN /\ resp' = [status |-> 400, error |-> "invalid_grant"]
            /\ UNCHANGED <<pendingAuths, validTokens, timers, drawn, issued>>
       ELSE /\ CanDraw
            /\ LET accessToken == randomUUID IN
               /\ validTokens' = validTokens \cup {accessToken}
               /\ pendingAuths' = PendingAfterRedeem(code)
               /\ resp' = [status |-> 200, access_token |-> accessToken,
                           token_type |-> "Bearer", expires_in |-> ExpiresIn]
               /\ timers' = timers \cup
                      {[token |-> accessToken, due |-> now + TimerDelay]}
               /\ issued' = MapSet(issued, accessToken,
                      [code |-> code,
                       challenge |-> pendingAuths[code].codeChallenge,
                       at |-> now])
            /\ drawn' = drawn + 1
    /\ UNCHANGED <<now, grants, removed,
                   mintedFor, sessionVars,
                   page, calls>>

\* GET /mcp/tools, behind authMiddleware
McpTools(authorization) ==
    /\ req = Idle
    /\ req' = [op |-> "tools", authorization |-> authorization]
    /\ resp' = IF AuthStatus(authorization) # 0
               THEN AuthReject(AuthStatus(authorization))
               ELSE [status |-> 200, ran |-> TRUE]
    /\ UNCHANGED <<pendingAuths, validTokens, timers, now, drawn,
                   grants, issued, removed,
                   mintedFor, sessionVars,
                   page, calls>>

\* POST /mcp/call, behind authMiddleware; `throws` says whether the image
\* call (or the destructuring of its arguments) throws
McpCall(authorization, name, throws) ==
    /\ req = Idle
    /\ req' = [op |-> "call", authorization |-> authorization,
               name |-> name, throws |-> throws]
    /\ resp' = IF AuthStatus(authorization) # 0
               THEN AuthReject(AuthStatus(authorization))
               ELSE IF name \notin {"generate_image", "edit_image"}
               THEN [status |-> 400, ran |-> TRUE]
               ELSE IF throws
               THEN [status |-> 500, ran |-> TRUE]
               ELSE [status |-> 200, ran |-> TRUE]
    /\ UNCHANGED <<pendingAuths, validTokens, timers, now, drawn,
                   grants, issued, removed,
                   mintedFor, sessionVars,
                   page, calls>>

\* the callback of setTimeout(() => validTokens.delete(accessToken), ...):
\* it runs between requests, at or after its due time
TimerFire(t) ==
    /\ req = Idle
    /\ t \in timers
    /\ now >= t.due
    /\ validTokens' = validTokens \ {t.token}
    /\ timers' = timers \ {t}
    /\ removed' = removed \cup (validTokens \ validTokens')
    /\ UNCHANGED <<pendingAuths, now, drawn, req, resp, grants, issued,
                   mintedFor, sessionVars,
                   page, calls>>

\* time passes between requests
Tick(t) ==
    /\ req = Idle
    /\ t > now
    /\ now' = t
    /\ UNCHANGED <<pendingAuths, validTokens, timers, drawn, req, resp,
                   grants, issued, removed,
                   mintedFor, sessionVars,
                   page, calls>>

\* the response has been sent: the server waits for its next event
EndExchange ==
    /\ req # Idle
    /\ req' = Idle
    /\ resp' = NoResp
    /\ UNCHANGED <<pendingAuths, validTokens, timers, now, drawn,
                   grants, issued, removed,
                   mintedFor, sessionVars,
                   page, calls>>

Next ==
    \/ Discovery
    \/ Health
    \/ Register
    \/ \E rt \in ResponseTypes, uri \in RedirectUris, cc \in Challenges,
          st \in StateParams : Authorize(rt, uri, cc, st)
    \/ \E id \in Presentable, pw \in Passwords, st \in StateParams :
          Submit(id, pw, st)
    \/ \E gt \in GrantTypes, code \in Presentable, cv \in Verifiers :
          Token(gt, code, cv)
    \/ \E h \in AuthHeaders : McpTools(h)
    \/ \E h \in AuthHeaders, name \in ToolNames, throws \in BOOLEAN :
          McpCall(h, name, throws)
    \/ \E t \in timers : TimerFire(t)
    \/ \E t \in Instants : Tick(t)
    \/ EndExchange

Spec == Init /\ [][Next]_vars

\* the same server, with clients that may also leave redirect_uri out of
\* GET /authorize and that do not use PKCE
NextUri ==
    \/ Discovery
    \/ Health
    \/ Register
    \/ \E rt \in ResponseTypes, uri \in RedirectUris \cup {Absent},
          st \in StateParams : Authorize(rt, uri, Absent, st)
    \/ \E id \in Presentable, pw \in Passwords, st \in StateParams :
          Submit(id, pw, st)
    \/ \E gt \in GrantTypes, code \in Presentable : Token(gt, code, Absent)
    \/ \E h \in AuthHeaders : McpTools(h)
    \/ \E h \in AuthHeaders, name \in ToolNames, throws \in BOOLEAN :
          McpCall(h, name, throws)
    \/ \E t \in timers : TimerFire(t)
    \/ \E t \in Instants : Tick(t)
    \/ EndExchange

SpecUri == Init /\ [][NextUri]_vars

----------------------------------------------------------------------------
(* Properties *)

\* the codes that some POST /token has redeemed
Redeemed == {issued[t].code : t \in DOMAIN issued}

\* the request being answered is a tool request
IsMcp(r) == r.op \in {"tools", "call"}

\* C1: every bearer token in validTokens was minted by redeeming a code that
\* a correct-password POST /authorize/submit minted; a login id that never
\* passed the password check cannot be redeemed for a token.
C1_TokensOnlyFromPasswordGrants ==
    \A t \in validTokens :
        t \in DOMAIN issued /\ issued[t].code \in grants

\* C2: a POST /authorize/submit with a password other than AUTH_PASSWORD
\* (empty and absent included) is answered 401 without a redirect, mints no
\* code and leaves pendingAuths and validTokens as they were, so the same
\* auth_id can still be submitted with the correct password.
C2_WrongPasswordChangesNothing ==
    [][(req'.op = "submit" /\ req'.password # AUTH_PASSWORD) =>
          /\ resp'.status = 401
          /\ "location" \notin DOMAIN resp'
          /\ pendingAuths' = pendingAuths
          /\ validTokens' = validTokens
          /\ drawn' = drawn
          /\ grants' = grants]_vars

\* a wrong password was submitted for a live, unexpired login id, which is
\* still live afterwards
C2_Witness ==
    /\ req.op = "submit"
    /\ req.password \in {"", Absent, "wrong"}
    /\ resp.status = 401
    /\ PendingLive(req.auth_id)

\* C3: once a POST /token has redeemed a code, every later POST /token with
\* that code is answered 400 (invalid_grant for the authorization_code
\* grant) and issues no token.
C3_CodeRedeemedAtMostOnce ==
    [][(req'.op = "token" /\ req'.code \in Redeemed) =>
          /\ resp'.status = 400
          /\ (req'.grant_type = "authorization_code" =>
                  resp'.error = "invalid_grant")
          /\ validTokens' = validTokens
          /\ issued' = issued]_vars

\* a second redemption of an already redeemed code was refused
C3_Witness ==
    /\ req.op = "token"
    /\ req.grant_type = "authorization_code"
    /\ req.code \in Redeemed
    /\ resp.status = 400
    /\ resp.error = "invalid_grant"

\* C4: when the record of a code (one a correct-password submit minted)
\* carries a PKCE challenge, POST /token fails
\* with invalid_grant and issues no token unless code_verifier is given and
\* its base64url SHA-256 equals the challenge; an omitted code_verifier
\* fails whatever the challenge.
C4_PkceVerifierRequired ==
    [][(/\ req'.op = "token"
        /\ req'.grant_type = "authorization_code"
        /\ req'.code \in DOMAIN pendingAuths
        /\ req'.code \in grants
        /\ Truthy(pendingAuths[req'.code].codeChallenge)
        /\ \/ req'.code_verifier = Absent
           \/ S256(req'.code_verifier) # pendingAuths[req'.code].codeChallenge)
       =>
          /\ resp'.status = 400
          /\ resp'.error = "invalid_grant"
          /\ validTokens' = validTokens]_vars

C6_AcceptedExactlyUntilExpiry ==
    (/\ IsMcp(req)
     /\ req.authorization.prefix = "Bearer "
     /\ req.authorization.rest \in DOMAIN issued
     /\ issued[req.authorization.rest].code \in grants) =>
        LET at == issued[req.authorization.rest].at IN
        /\ now < at + 86400 * 1000 => resp.ran
        /\ now > at + 86400 * 1000 => (resp.status = 403 /\ ~resp.ran)

C8_ExpiredCodeRejected ==
    [][(/\ req'.op = "token"
        /\ req'.grant_type = "authorization_code"
        /\ req'.code \in DOMAIN pendingAuths
        /\ req'.code \in grants
        /\ now > pendingAuths[req'.code].expiresAt)
       =>
          /\ resp'.status = 400
          /\ resp'.error = "invalid_grant"
          /\ validTokens' = validTokens]_vars

\* C9: the flow completed in order succeeds.  A correct-password submit of
\* a live, unexpired login id (with a usable redirect URI) is answered by a
\* redirect carrying a code whose record keeps the challenge; POST /token
\* with a live code and a verifier whose S256 hash is the challenge is
\* answered 200 with an access_token that is in validTokens; and every
\* issued token is accepted by the gateway before its issuance time + 86400 s.
C9_FlowStep ==
    /\ (/\ req'.op = "submit"
        /\ req'.password = AUTH_PASSWORD
        /\ req'.auth_id \in DOMAIN pendingAuths
        /\ now <= pendingAuths[req'.auth_id].expiresAt
        /\ pendingAuths[req'.auth_id].redirectUri # Absent)
       =>
          /\ resp'.status = 302
          /\ resp'.location.base = pendingAuths[req'.auth_id].redirectUri
          /\ resp'.location.code \in DOMAIN pendingAuths'
          /\ pendingAuths'[resp'.location.code].codeChallenge
                = pendingAuths[req'.auth_id].codeChallenge
    /\ (/\ req'.op = "token"
        /\ req'.grant_type = "authorization_code"
        /\ req'.code \in DOMAIN pendingAuths
        /\ req'.code_verifier # Absent
        /\ S256(req'.code_verifier) = pendingAuths[req'.code].codeChallenge)
       =>
          /\ resp'.status = 200
          /\ resp'.access_token \in validTokens'
          /\ resp'.access_token \notin validTokens
    /\ IsMcp(req') =>
          \A t \in DOMAIN issued :
              (/\ req'.authorization = [prefix |-> "Bearer ", rest |-> t]
               /\ now < issued[t].at + 86400 * 1000)
              => resp'.ran

C9_OrderedFlowSucceeds ==
    [][C9_FlowStep]_vars

\* the token of a flow completed in order (password checked, PKCE challenge
\* matched) is accepted by the gateway ten minutes after its issue
C9_Witness ==
    /\ IsMcp(req)
    /\ req.authorization.prefix = "Bearer "
    /\ req.authorization.rest \in DOMAIN issued
    /\ LET i == issued[req.authorization.rest] IN
          /\ i.code \in grants
          /\ i.challenge = S256("verifier-1")
          /\ now > i.at
    /\ resp.ran

\* C10: GET /authorize with response_type other than "code" (or absent) is
\* answered 400 and creates no record; with "code" it adds exactly one
\* record, under an identifier never used before, with expiresAt = now + 10
\* minutes and the supplied challenge and redirect URI, and leaves every
\* other pending record and validTokens unchanged.
C10_AuthorizeStep ==
    req'.op = "authorize" =>
        IF req'.response_type # "code"
        THEN /\ resp'.status = 400
             /\ pendingAuths' = pendingAuths
             /\ validTokens' = validTokens
        ELSE /\ resp'.status = 200
             /\ validTokens' = validTokens
             /\ \E id \in (DOMAIN pendingAuths') \ (DOMAIN pendingAuths) :
                  /\ DOMAIN pendingAuths' = (DOMAIN pendingAuths) \cup {id}
                  /\ id = resp'.auth_id
                  /\ id \notin 0..drawn
                  /\ id \notin validTokens \cup removed \cup grants
                  /\ pendingAuths'[id] =
                        [codeChallenge |-> req'.code_challenge,
                         redirectUri   |-> req'.redirect_uri,
                         expiresAt     |-> now + 600000]
                  /\ \A k \in DOMAIN pendingAuths :
                        pendingAuths'[k] = pendingAuths[k]

C10_AuthorizeCreatesOneRecord ==
    [][C10_AuthorizeStep]_vars

\* an authorization request was accepted ten minutes or more after start,
\* while another record was pending
C10_Witness ==
    /\ req.op = "authorize"
    /\ resp.status = 200
    /\ now > 0
    /\ Cardinality(DOMAIN pendingAuths) >= 2

\* C11: a correct-password POST /authorize/submit of a live, unexpired
\* auth_id re-keys the record: auth_id is no longer a key, a freshly minted
\* code maps to the same record (expiry not extended), no other record
\* changes, and the response is a redirect to redirectUri carrying the code.
C11_SubmitStep ==
    (/\ req'.op = "submit"
     /\ req'.password = AUTH_PASSWORD
     /\ req'.auth_id \in DOMAIN pendingAuths
     /\ now <= pendingAuths[req'.auth_id].expiresAt)
    =>
       LET old == pendingAuths[req'.auth_id] IN
       /\ req'.auth_id \notin DOMAIN pendingAuths'
       /\ \E code \in (DOMAIN pendingAuths') \ (DOMAIN pendingAuths) :
             /\ code \notin 0..drawn
             /\ DOMAIN pendingAuths'
                  = ((DOMAIN pendingAuths) \ {req'.auth_id}) \cup {code}
             /\ pendingAuths'[code] = old
             /\ \A k \in (DOMAIN pendingAuths) \ {req'.auth_id} :
                   pendingAuths'[k] = pendingAuths[k]
             /\ resp'.status = 302
             /\ resp'.location.base = old.redirectUri
             /\ resp'.location.code = code

C11_SubmitRekeysAndRedirects ==
    [][C11_SubmitStep]_vars

\* C12: POST /authorize/submit with the correct password but an auth_id
\* whose record is missing or past expiresAt answers 400, mints no code and
\* issues no redirect.
C12_DeadSubmitStep ==
    (/\ req'.op = "submit"
     /\ req'.password = AUTH_PASSWORD
     /\ \/ req'.auth_id \notin DOMAIN pendingAuths
        \/ now > pendingAuths[req'.auth_id].expiresAt)
    =>
       /\ resp'.status = 400
       /\ "location" \notin DOMAIN resp'
       /\ pendingAuths' = pendingAuths
       /\ drawn' = drawn
       /\ grants' = grants

C12_DeadRecordRefused ==
    [][C12_DeadSubmitStep]_vars

\* an expired record, still in the map, was submitted with the correct
\* password and refused
C12_Witness ==
    /\ req.op = "submit"
    /\ req.password = AUTH_PASSWORD
    /\ req.auth_id \in DOMAIN pendingAuths
    /\ now > pendingAuths[req.auth_id].expiresAt
    /\ resp.status = 400

\* C13: every 401 (missing or malformed Authorization) and every 403
\* (invalid token) answer of the gateway carries a challenge header.
C13_RejectionsCarryChallenge ==
    (IsMcp(req) /\ resp.status \in {401, 403})
    => resp.www_authenticate # Absent

\* C14: request handlers run to completion one at a time, so the existence
\* check and the deletion of a key are one step: however two POST /token
\* requests for one code interleave with other requests, at most one token
\* is issued for the code, and however two correct-password
\* POST /authorize/submit requests for one auth_id interleave, at most one
\* authorization code is minted for the auth_id.
C14_AtMostOnePerKey ==
    /\ \A t1, t2 \in DOMAIN issued :
          issued[t1].code = issued[t2].code => t1 = t2
    /\ \A c1, c2 \in DOMAIN mintedFor :
          mintedFor[c1] = mintedFor[c2] => c1 = c2

\* an auth_id whose code has already been redeemed for a token was submitted
\* again with the correct password and refused
C14_Witness ==
    /\ req.op = "submit"
    /\ req.password = AUTH_PASSWORD
    /\ \E c \in DOMAIN mintedFor :
          /\ mintedFor[c] = req.auth_id
          /\ \E t \in DOMAIN issued : issued[t].code = c
    /\ resp.status = 400

----------------------------------------------------------------------------
(* The protected-resource discovery document and the Session Multiplexer,  *)
(* the MCP session traffic on POST | GET | DELETE / behind the gateway     *)

MaxSessions == 2

\* the Mcp-Session-Id header of a request: absent, fabricated (0) or an id
\* the server handed out
NoSession == [given |-> FALSE, id |-> 0]

SessionHeaders ==
    {NoSession} \cup {[given |-> TRUE, id |-> i] : i \in 0..sessionsMade}

\* request bodies: one JSON-RPC message or a batch, as the methods named
Bodies ==
    { <<"initialize">>, <<"tools/list">>, <<"tools/call">>,
      <<"tools/list", "initialize">>, <<"tools/list", "tools/call">> }

\* a single initialize message, or a batch containing at least one
AnyBody(body) == TRUE

IsInitialize(body) == \E i \in DOMAIN body : body[i] = "initialize"

\* the registry holds an Active context under the id
SessionKnown(id) == id \in sessions \cup closed

SessionLive(id) == id \in sessions

\* a new session id: never handed out before
ReusedSessionId == Cardinality(sessions) + 1

NewSessionId == sessionsMade + 1

CanOpen == sessionsMade < MaxSessions

\* the answer to a request that names no Active session
NoSessionAnswer(sid) ==
    [status |-> 400,
     error |-> IF sid.given THEN "InvalidOrMissingSession" ELSE "BadRequest"]

\* GET /.well-known/oauth-protected-resource
ProtectedResource ==
    /\ req = Idle
    /\ req' = [op |-> "protected_resource", authorization |-> NoHeader]
    /\ resp' = [status |-> 200]
    /\ UNCHANGED <<pendingAuths, validTokens, timers, now, drawn,
                   grants, issued, removed, mintedFor, sessionVars,
                   page, calls>>

\* POST /
SessionPost(authorization, sid, body) ==
    /\ req = Idle
    /\ req' = [op |-> "post", authorization |-> authorization,
               sid |-> sid, body |-> body]
    /\ IF AuthStatus(authorization) # 0
       THEN /\ resp' = AuthReject(AuthStatus(authorization))
            /\ UNCHANGED sessionVars
       ELSE IF sid.given /\ SessionLive(sid.id)
       THEN /\ resp' = [status |-> 200, routed |-> sid.id]
            /\ UNCHANGED sessionVars
       ELSE IF ~sid.given /\ IsInitialize(body)
       THEN /\ CanOpen
            /\ LET id == NewSessionId IN
               /\ sessions' = sessions \cup {id}
               /\ resp' = [status |-> 200, routed |-> id, session |-> id]
            /\ sessionsMade' = sessionsMade + 1
            /\ UNCHANGED closed
       ELSE /\ resp' = NoSessionAnswer(sid)
            /\ UNCHANGED sessionVars
    /\ UNCHANGED <<pendingAuths, validTokens, timers, now, drawn,
                   grants, issued, removed, mintedFor,
                   page, calls>>

\* GET /
SessionGet(authorization, sid) ==
    /\ req = Idle
    /\ req' = [op |-> "get", authorization |-> authorization, sid |-> sid]
    /\ resp' = IF AuthStatus(authorization) # 0
               THEN AuthReject(AuthStatus(authorization))
               ELSE IF sid.given /\ SessionLive(sid.id)
               THEN [status |-> 200, routed |-> sid.id]
               ELSE NoSessionAnswer(sid)
    /\ UNCHANGED <<pendingAuths, validTokens, timers, now, drawn,
                   grants, issued, removed, mintedFor, sessionVars,
                   page, calls>>

\* DELETE /: the explicit delete-session request
SessionDelete(authorization, sid) ==
    /\ req = Idle
    /\ req' = [op |-> "delete", authorization |-> authorization, sid |-> sid]
    /\ IF AuthStatus(authorization) # 0
       THEN /\ resp' = AuthReject(AuthStatus(authorization))
            /\ UNCHANGED sessionVars
       ELSE IF sid.given /\ SessionLive(sid.id)
       THEN /\ resp' = [status |-> 200, routed |-> sid.id]
            /\ sessions' = sessions \ {sid.id}
            /\ closed' = closed \cup {sid.id}
            /\ UNCHANGED sessionsMade
       ELSE /\ resp' = NoSessionAnswer(sid)
            /\ UNCHANGED sessionVars
    /\ UNCHANGED <<pendingAuths, validTokens, timers, now, drawn,
                   grants, issued, removed, mintedFor,
                   page, calls>>

\* the transport signals closure: the client of session id disconnected
TransportClose(id) ==
    /\ req = Idle
    /\ id \in sessions
    /\ sessions' = sessions \ {id}
    /\ closed' = closed \cup {id}
    /\ UNCHANGED <<pendingAuths, validTokens, timers, now, drawn, req, resp,
                   grants, issued, removed, mintedFor, sessionsMade,
                   page, calls>>

\* the server with its session traffic; the login flow is the plain one
\* (response_type=code, an absolute redirect_uri, no PKCE)
NextSession ==
    \/ Discovery
    \/ ProtectedResource
    \/ Health
    \/ \E uri \in RedirectUris : Authorize("code", uri, Absent, "")
    \/ \E id \in Presentable, pw \in {AUTH_PASSWORD, "wrong"} :
          Submit(id, pw, "")
    \/ \E code \in Presentable : Token("authorization_code", code, Absent)
    \/ \E h \in AuthHeaders, sid \in SessionHeaders, body \in Bodies :
          SessionPost(h, sid, body)
    \/ \E h \in AuthHeaders, sid \in SessionHeaders : SessionGet(h, sid)
    \/ \E h \in AuthHeaders, sid \in SessionHeaders : SessionDelete(h, sid)
    \/ \E id \in sessions : TransportClose(id)
    \/ \E t \in timers : TimerFire(t)
    \/ \E t \in Instants : Tick(t)
    \/ EndExchange

SpecSession == Init /\ [][NextSession]_vars

\* C15: in every state both discovery documents and GET /health answer a
\* request without an Authorization header successfully, and answering
\* changes neither pendingAuths nor validTokens.
C15_OpenStep ==
    (req'.op \in {"discovery", "protected_resource", "health"})
    =>
       /\ req'.authorization = NoHeader
       /\ resp'.status = 200
       /\ pendingAuths' = pendingAuths
       /\ validTokens' = validTokens

C15_OpenPathsAlwaysAnswer ==
    /\ [](req = Idle =>
            (ENABLED Discovery /\ ENABLED ProtectedResource /\ ENABLED Health))
    /\ [][C15_OpenStep]_vars

\* the liveness probe answered while a login was pending and no token was
\* valid
C15_Witness ==
    /\ req.op = "health"
    /\ req.authorization = NoHeader
    /\ resp.status = 200
    /\ pendingAuths # EmptyMap
    /\ validTokens = {}

\* C16: an authenticated request without a session id is accepted only if
\* its body is an initialize message or a batch containing one, and then a
\* session with a fresh id is created and registered; any other request
\* without a session id answers 400 and creates no session.
C16_NoSessionStep ==
    (/\ req'.op \in {"post", "get", "delete"}
     /\ AuthStatus(req'.authorization) = 0
     /\ ~req'.sid.given)
    =>
       IF /\ req'.op = "post"
          /\ \E i \in DOMAIN req'.body : req'.body[i] = "initialize"
       THEN /\ resp'.status = 200
            /\ resp'.session \notin sessions \cup closed
            /\ sessions' = sessions \cup {resp'.session}
            /\ sessionsMade' = sessionsMade + 1
       ELSE /\ resp'.status = 400
            /\ "session" \notin DOMAIN resp'
            /\ sessions' = sessions
            /\ sessionsMade' = sessionsMade

C16_OnlyInitializeOpensSession ==
    [][C16_NoSessionStep]_vars

\* while a session opened by an initialize was registered, a tool call
\* without a session id was refused
C16_Witness ==
    /\ sessions # {}
    /\ req.op = "post"
    /\ AuthStatus(req.authorization) = 0
    /\ ~req.sid.given
    /\ req.body = <<"tools/call">>
    /\ resp.status = 400
    /\ resp.error = "BadRequest"

\* C17: a request naming a session id that was never created or has been
\* closed fails with InvalidOrMissingSession and is not routed to a
\* session; a closed id never becomes Active again.
C17_DeadSessionStep ==
    /\ (/\ req'.op \in {"post", "get", "delete"}
        /\ AuthStatus(req'.authorization) = 0
        /\ req'.sid.given
        /\ req'.sid.id \notin sessions)
       =>
          /\ resp'.status = 400
          /\ resp'.error = "InvalidOrMissingSession"
          /\ "routed" \notin DOMAIN resp'
          /\ sessions' = sessions
          /\ sessionsMade' = sessionsMade
    /\ closed \subseteq closed'
    /\ closed' \cap sessions' = {}

C17_DeadSessionRefused ==
    [][C17_DeadSessionStep]_vars

\* a closed session was named again and refused
C17_Witness ==
    /\ req.op \in {"post", "get", "delete"}
    /\ AuthStatus(req.authorization) = 0
    /\ req.sid.given
    /\ req.sid.id \in closed
    /\ resp.status = 400
    /\ resp.error = "InvalidOrMissingSession"

\* C18: session ids are never reused and sessions are independent: created
\* sessions have pairwise distinct ids, closing a session removes that id
\* alone, and every session still registered is routed to.
C18_SessionStep ==
    /\ sessionsMade' # sessionsMade
       => \E id \in sessions' \ (sessions \cup closed) :
             /\ sessions' = sessions \cup {id}
             /\ closed' = closed
    /\ closed' # closed
       => \E id \in sessions :
             /\ sessions' = sessions \ {id}
             /\ closed' = closed \cup {id}
    /\ (/\ req'.op \in {"post", "get"}
        /\ AuthStatus(req'.authorization) = 0
        /\ req'.sid.given
        /\ req'.sid.id \in sessions)
       =>
          /\ resp'.status = 200
          /\ resp'.routed = req'.sid.id
          /\ sessions' = sessions

C18_SessionsDistinctAndIndependent ==
    /\ [](Cardinality(sessions \cup closed) = sessionsMade)
    /\ [][C18_SessionStep]_vars

\* of two sessions one was closed and the other still answered
C18_Witness ==
    /\ sessionsMade = 2
    /\ closed # {}
    /\ req.op = "post"
    /\ req.sid.given
    /\ req.sid.id \in sessions
    /\ resp.status = 200
    /\ resp.routed = req.sid.id

\* C19: when generateImage / editImage throws on an authenticated tool
\* call, the failure is returned inside a normally completed response,
\* never as an HTTP error status.
C19_ToolFailureIsPayload ==
    (/\ req.op = "call"
     /\ req.name \in {"generate_image", "edit_image"}
     /\ req.throws
     /\ resp.ran
     /\ issued[BearerToken(req.authorization)].code \in grants)
    => resp.status = 200

\* C20: the ids of live pending records (login ids and authorization
\* codes) and the live bearer tokens are pairwise distinct, and minting an
\* id never overwrites or aliases a live record.
C20_MintStep ==
    /\ \A k \in (DOMAIN pendingAuths) \cap (DOMAIN pendingAuths') :
          pendingAuths'[k] = pendingAuths[k]
    /\ drawn' # drawn
       => Cardinality(((DOMAIN pendingAuths') \cup validTokens')
                        \ ((DOMAIN pendingAuths) \cup validTokens)) = 1

C20_LiveIdsDistinct ==
    /\ []((DOMAIN pendingAuths) \cap validTokens = {})
    /\ [][C20_MintStep]_vars

\* a code was minted while another login was pending: a login id and an
\* authorization code are live side by side
C20_Witness ==
    /\ req.op = "submit"
    /\ resp.status = 302
    /\ resp.location.code \in DOMAIN pendingAuths
    /\ \E k \in DOMAIN pendingAuths :
          k # resp.location.code /\ k \notin grants

\* C21: a POST /token that finds the record of the code (one a
\* correct-password submit minted) but rejects the attempt deletes the
\* record, so that no later POST /token with the same code can succeed.
C21_RejectedStep ==
    (/\ req'.op = "token"
     /\ req'.grant_type = "authorization_code"
     /\ req'.code \in DOMAIN pendingAuths
     /\ req'.code \in grants
     /\ resp'.status = 400)
    =>
       /\ resp'.error = "invalid_grant"
       /\ req'.code \notin DOMAIN pendingAuths'

C21_RejectedRedemptionDeletes ==
    [][C21_RejectedStep]_vars

\* C22: a successful POST /token adds exactly one fresh token to
\* validTokens, removes exactly the redeemed code's record from
\* pendingAuths, schedules one removal of that token 86400 s later and
\* returns the token with expires_in = 86400; every other pending record
\* and token is unchanged.
C22_TokenStep ==
    (req'.op = "token" /\ resp'.status = 200)
    =>
       LET tok == resp'.access_token IN
       /\ tok \notin validTokens
       /\ tok \notin 0..drawn
       /\ validTokens' = validTokens \cup {tok}
       /\ req'.code \in DOMAIN pendingAuths
       /\ DOMAIN pendingAuths' = (DOMAIN pendingAuths) \ {req'.code}
       /\ \A k \in DOMAIN pendingAuths' : pendingAuths'[k] = pendingAuths[k]
       /\ timers' = timers \cup {[token |-> tok, due |-> now + 86400 * 1000]}
       /\ Cardinality(timers') = Cardinality(timers) + 1
       /\ resp'.expires_in = 86400

C22_TokenSuccessFrame ==
    [][C22_TokenStep]_vars

\* the code of a password login was redeemed: its token is valid, its
\* removal is scheduled and the code's record is gone
C22_Witness ==
    /\ req.op = "token"
    /\ resp.status = 200
    /\ req.code \in grants
    /\ resp.access_token \in validTokens
    /\ \E t \in timers : t.token = resp.access_token
    /\ req.code \notin DOMAIN pendingAuths

----------------------------------------------------------------------------
(* The server with its scheduling: the clock advances, the event loop runs *)
(* a timer callback that is due, and every request is answered             *)

SpecFair ==
    /\ Init
    /\ [][Next]_vars
    /\ WF_vars(EndExchange)
    /\ SF_vars(\E t \in Instants : Tick(t))
    /\ SF_vars(\E t \in timers : TimerFire(t))

\* C23: every issued bearer token is eventually removed from validTokens by
\* its own timer, presented to the gateway or not, so that at any time
\* validTokens holds only tokens issued within the last 86400 s (stated for
\* the tokens of codes that a correct-password submit minted).
C23_EagerRemoval ==
    /\ \A tok \in Ids : (tok \in validTokens) ~> (tok \notin validTokens)
    /\ [](\A tok \in validTokens :
            issued[tok].code \in grants
                => now <= issued[tok].at + 86400 * 1000)

\* C24: POST /token with a grant_type other than "authorization_code"
\* fails with unsupported_grant_type whatever the code, and this failure
\* and the unknown-code invalid_grant failure leave pendingAuths and
\* validTokens unchanged.
C24_ValidationStep ==
    /\ (req'.op = "token" /\ req'.grant_type # "authorization_code")
       =>
          /\ resp'.status = 400
          /\ resp'.error = "unsupported_grant_type"
          /\ pendingAuths' = pendingAuths
          /\ validTokens' = validTokens
    /\ (/\ req'.op = "token"
        /\ req'.grant_type = "authorization_code"
        /\ req'.code \notin DOMAIN pendingAuths)
       =>
          /\ resp'.status = 400
          /\ resp'.error = "invalid_grant"
          /\ pendingAuths' = pendingAuths
          /\ validTokens' = validTokens

C24_GrantTypeCheckedFirst ==
    [][C24_ValidationStep]_vars

\* a redeemable code was presented with another grant type and refused as
\* unsupported_grant_type, its record kept
C24_Witness ==
    /\ req.op = "token"
    /\ req.grant_type # "authorization_code"
    /\ req.code \in DOMAIN pendingAuths
    /\ req.code \in grants
    /\ resp.status = 400
    /\ resp.error = "unsupported_grant_type"

\* C25: POST /authorize/submit checks the password before it looks the
\* record up: a wrong password is answered 401 whether or not auth_id names
\* a live record, and 400 is only ever the answer to a request that carried
\* the correct password.
C25_SubmitOrderStep ==
    (req'.op = "submit")
    =>
       /\ req'.password # AUTH_PASSWORD => resp'.status = 401
       /\ resp'.status = 400 => req'.password = AUTH_PASSWORD

C25_PasswordCheckedFirst ==
    [][C25_SubmitOrderStep]_vars

\* a wrong password for an auth_id without a live record was answered 401
C25_Witness ==
    /\ req.op = "submit"
    /\ req.password # AUTH_PASSWORD
    /\ \/ req.auth_id \notin DOMAIN pendingAuths
       \/ now > pendingAuths[req.auth_id].expiresAt
    /\ resp.status = 401

----------------------------------------------------------------------------
(* The login as a browser goes through it: GET /authorize answers a page   *)
(* whose form carries auth_id and state in hidden fields, and submitting   *)
(* the form is the POST /authorize/submit of that login attempt            *)

\* the state values a client sends with GET /authorize
FormStates == StateParams \cup {Absent, "x\"y", "a&amp;b"}

\* the value a browser reads from <input value="${text}">: the template
\* inserts the text as it is, so the attribute ends at the first double
\* quote of the text, and character references in it are decoded
HtmlAttrValue(text) ==
    CASE text = "x\"y"    -> "x"
      [] text = "a&amp;b" -> "a&b"
      [] OTHER            -> text

\* the browser shows the page that GET /authorize answered
BrowserLoads ==
    /\ req.op = "authorize"
    /\ resp.status = 200
    /\ page' = [shown |-> TRUE, auth_id |-> resp.auth_id,
                given |-> req.state, state |-> HtmlAttrValue(resp.state)]
    /\ UNCHANGED <<pendingAuths, validTokens, timers, now, drawn, req, resp,
                   grants, issued, removed, mintedFor, sessionVars, calls>>

\* the user types a password and submits the form of the page shown
BrowserSubmits(password) ==
    /\ page # NoPage
    /\ Submit(page.auth_id, password, page.state)

NextForm ==
    \/ \E uri \in RedirectUris, st \in FormStates :
          Authorize("code", uri, Absent, st)
    \/ BrowserLoads
    \/ \E pw \in {AUTH_PASSWORD, "wrong"} : BrowserSubmits(pw)
    \/ \E t \in Instants : Tick(t)
    \/ EndExchange

SpecForm == Init /\ [][NextForm]_vars

\* C26: the state given to GET /authorize for a login attempt is echoed
\* back unmodified: the redirect issued for that login attempt carries a
\* state parameter equal to the original state when that was non-empty, and
\* no state parameter when it was empty or absent.
C26_EchoStep ==
    (/\ req'.op = "submit"
     /\ resp'.status = 302
     /\ page # NoPage
     /\ req'.auth_id = page.auth_id)
    =>
       resp'.location.state
          = IF page.given \in {Absent, ""} THEN Absent ELSE page.given

C26_StateEchoedUnmodified ==
    [][C26_EchoStep]_vars

----------------------------------------------------------------------------
(* generateImage: an async function that awaits the primary model and, in  *)
(* its catch block, the fallback model; invocations overlap at the awaits  *)

MaxCalls == 3

\* what an awaited model.generateContent(...) comes back with: a response
\* with an inlineData part, a response without one, or a rejection
Outcomes == {"image", "empty", "throws"}

\* an invocation that has just called the primary model
NewCall ==
    [pc |-> "primary", primaryCalls |-> 1, fallbackCalls |-> 0,
     first |-> Absent, second |-> Absent, result |-> Absent]

\* the catch block is entered: the primary call rejected, or
\* "No image generated" was thrown
AlwaysFallback(outcome) == TRUE

PrimaryFailed(outcome) == outcome # "image"

\* generateImage(prompt, aspectRatio, style) up to its first await
GenStart ==
    /\ Len(calls) < MaxCalls
    /\ calls' = Append(calls, NewCall)
    /\ UNCHANGED <<pendingAuths, validTokens, timers, now, drawn, req, resp,
                   grants, issued, removed, mintedFor, sessionVars, page>>

\* the primary model's answer arrives: return the image, or fall into the
\* catch block and call the fallback model
PrimaryReturns(c, outcome) ==
    /\ c \in DOMAIN calls
    /\ calls[c].pc = "primary"
    /\ calls' = [calls EXCEPT ![c] =
          IF PrimaryFailed(outcome)
          THEN [@ EXCEPT !.pc = "fallback", !.first = outcome,
                         !.fallbackCalls = @ + 1]
          ELSE [@ EXCEPT !.pc = "done", !.first = outcome,
                         !.result = "image"]]
    /\ UNCHANGED <<pendingAuths, validTokens, timers, now, drawn, req, resp,
                   grants, issued, removed, mintedFor, sessionVars, page>>

\* the fallback model's answer arrives: return the image, or throw (the
\* rejection itself, or "Image generation failed: ...") to the caller
FallbackReturns(c, outcome) ==
    /\ c \in DOMAIN calls
    /\ calls[c].pc = "fallback"
    /\ calls' = [calls EXCEPT ![c] =
          [@ EXCEPT !.pc = "done", !.second = outcome,
                    !.result = IF outcome = "image" THEN "image"
                                                    ELSE "error"]]
    /\ UNCHANGED <<pendingAuths, validTokens, timers, now, drawn, req, resp,
                   grants, issued, removed, mintedFor, sessionVars, page>>

NextGen ==
    \/ GenStart
    \/ \E c \in 1..MaxCalls, o \in Outcomes : PrimaryReturns(c, o)
    \/ \E c \in 1..MaxCalls, o \in Outcomes : FallbackReturns(c, o)

\* every awaited model call settles
SpecGen ==
    /\ Init
    /\ [][NextGen]_vars
    /\ \A c \in 1..MaxCalls :
          /\ WF_vars(\E o \in Outcomes : PrimaryReturns(c, o))
          /\ WF_vars(\E o \in Outcomes : FallbackReturns(c, o))

\* C27: generateImage applies a one-level fallback and always terminates:
\* the fallback model is called only after the primary call failed or
\* returned no image, at most once and with no further retry, and when the
\* fallback yields no image either the call ends with an error for the
\* caller.
C27_CallOk(call) ==
    /\ call.primaryCalls = 1
    /\ call.fallbackCalls <= 1
    /\ call.fallbackCalls = 1 => call.first \in {"empty", "throws"}
    /\ call.pc = "done" =>
          /\ call.result \in {"image", "error"}
          /\ call.result = "image" =>
                "image" \in {call.first, call.second}
          /\ (call.fallbackCalls = 1 /\ call.second # "image")
                => call.result = "error"

C27_DoneStep ==
    \A c \in DOMAIN calls :
       calls[c].pc = "done" => calls'[c] = calls[c]

C27_OneLevelFallbackTerminates ==
    /\ [](\A c \in DOMAIN calls : C27_CallOk(calls[c]))
    /\ [][C27_DoneStep]_vars
    /\ \A c \in 1..MaxCalls :
          (c \in DOMAIN calls)
             ~> (c \in DOMAIN calls /\ calls[c].pc = "done")

\* an invocation ended with an error after both models gave no image,
\* while a later invocation was still waiting for the primary model
C27_Witness ==
    \E c, d \in DOMAIN calls :
       /\ calls[c].pc = "done"
       /\ calls[c].first = "empty"
       /\ calls[c].second = "empty"
       /\ calls[c].result = "error"
       /\ calls[c].fallbackCalls = 1
       /\ d > c
       /\ calls[d].pc = "primary"

====
